---- MODULE Spec2Model ----
(***************************************************************************)
(* Crafting dependency and transformation resolution of the Abiotic        *)
(* Crafting Notes backend: the dependency tree builder and the resource    *)
(* aggregator of app/services/item_service.py (served by                   *)
(* app/api/recipes.py) and the upgrade tree resolver, the cooking chain    *)
(* resolver and the recipe variant expansion of app/api/items.py.          *)
(* The catalog is read-only: it is drawn at Init and the actions are the   *)
(* HTTP handlers answering requests against it, one request at a time.     *)
(* The crafting orders of app/api/orders.py and                            *)
(* app/services/order_service.py are the one table the handlers write.     *)
(***************************************************************************)
EXTENDS Integers, Sequences, FiniteSets, TLC

VARIABLES
    items,      \* the Item table: item id -> [name, variants]
    upgrades,   \* the ItemUpgrade table, in the order the query returns it
    recipes,    \* the Recipe table with each recipe's RecipeIngredient rows
    substitutes,\* the RecipeSubstitute rows with their RecipeSubstituteItem rows
    consumables,\* the Consumable rows: item row id -> [cooked_item_row_id, ...]
    orders,     \* the Order table: order id -> [requester_id, crafter_id, ...]
    request,    \* the request being answered (None when the service is idle)
    response    \* the handler's answer to it: [status, body]

\* the tables of the catalog, and all tables of the database
catalog == <<items, upgrades, recipes, substitutes, consumables>>

tables == <<items, upgrades, recipes, substitutes, consumables, orders>>

vars == <<items, upgrades, recipes, substitutes, consumables, orders,
          request, response>>

----------------------------------------------------------------------------
(* Bounds of the model *)

\* total number of catalog rows (variants and ingredients) in a catalog
MaxRows == 3
\* largest quantity of an ingredient in a recipe variant
MaxIngredientQuantity == 2
\* largest quantity a request asks for (the handlers require quantity >= 1)
MaxQuantity == 2
\* number of rows of the ItemUpgrade table
MaxUpgrades == 3
\* number of RecipeIngredient rows of a recipe
MaxIngredients == 2
\* number of RecipeSubstituteItem rows of a substitution group
MaxGroupSize == 2
\* iterations after which a while loop counts as never ending.  It exceeds
\* every number of iterations a guarded walk over the model's items takes.
LoopLimit == 8
\* depth of the interpreter's call stack; deeper recursion raises
\* RecursionError.  It exceeds every depth an acyclic walk of the model's
\* items can reach.
RecursionLimit == 6

\* ids with a row in the Item table of the dependency engine
ItemIds == {"a", "b"}
\* row ids the ItemUpgrade table refers to
RowIds == {"a", "b", "c"}
\* an id no row of the Item table has (a dangling reference)
Ghost == "ghost"
AllIds == ItemIds \cup {Ghost}

----------------------------------------------------------------------------
(* Values *)

\* Python's None
None == [none |-> TRUE]
\* the exception raised when the call stack is exhausted
RecursionError == [error |-> "RecursionError"]
\* a Python list a function returns (when it does not raise)
List(elements) == [list |-> elements]

\* Item.name of a row, and the item_name stored inside an ingredient
NameOf(id) == <<"name", id>>
IconOf(id) == <<"icon_path", id>>
StoredNameOf(id) == <<"item_name", id>>

CraftingIngredient(item_id, quantity) ==
    [item_id |-> item_id, item_name |-> StoredNameOf(item_id), quantity |-> quantity]

CraftingVariant(ingredients) == [ingredients |-> ingredients]

DependencyNode(item_id, item_name, quantity, craftable, children) ==
    [item_id |-> item_id, item_name |-> item_name, quantity |-> quantity,
     craftable |-> craftable, children |-> children]

ResourceCalculation(item_id, item_name, total_quantity) ==
    [item_id |-> item_id, item_name |-> item_name,
     total_quantity |-> total_quantity, is_base_resource |-> TRUE]

----------------------------------------------------------------------------
(* The catalogs Init draws from: every Item table over ItemIds whose       *)
(* variants are built from at most MaxRows rows.                           *)

ItemRow(id) == [name |-> NameOf(id), icon_path |-> IconOf(id), variants |-> <<>>]

EmptyItems == [id \in ItemIds |-> ItemRow(id)]

CatalogRows ==
    [op : {"variant"}, id : ItemIds]
    \cup [op : {"ingredient"}, id : ItemIds, item_id : AllIds,
          quantity : 1..MaxIngredientQuantity]

\* a "variant" row opens a new variant of the item; an "ingredient" row adds
\* an ingredient to the item's last variant (opening the first one if needed)
AddRow(cat, row) ==
    LET vs == cat[row.id].variants
        n  == Len(vs)
        nvs == IF row.op = "variant"
               THEN Append(vs, CraftingVariant(<<>>))
               ELSE LET ing == CraftingIngredient(row.item_id, row.quantity) IN
                    IF n = 0 THEN <<CraftingVariant(<<ing>>)>>
                    ELSE [vs EXCEPT ![n] =
                            CraftingVariant(Append(vs[n].ingredients, ing))]
    IN [cat EXCEPT ![row.id].variants = nvs]

RECURSIVE CatalogsOfSize(_)
CatalogsOfSize(n) ==
    IF n = 0 THEN {EmptyItems}
    ELSE LET smaller == CatalogsOfSize(n - 1) IN
         smaller \cup {AddRow(cat, row) : cat \in smaller, row \in CatalogRows}

Catalogs == CatalogsOfSize(MaxRows)

----------------------------------------------------------------------------
(* app/services/item_service.py *)

\* a lookup that also misses the items that have no recipe
get_item_with_recipe_only(db, item_id) ==
    IF item_id \in DOMAIN db /\ Len(db[item_id].variants) > 0
    THEN db[item_id]
    ELSE None

get_item(db, item_id) ==
    IF item_id \in DOMAIN db THEN db[item_id] ELSE None

\* the node returned for an item that is already in visited
cycle_leaf_not_craftable(item_id, item, quantity) ==
    DependencyNode(item_id, item.name, quantity, FALSE, <<>>)

\* a cut that still lists the ingredients of the item, without descending
cycle_leaf_with_ingredients(item_id, item, quantity) ==
    LET ingredients == IF Len(item.variants) > 0
                       THEN item.variants[1].ingredients ELSE <<>>
    IN DependencyNode(item_id, item.name, quantity, Len(item.variants) > 0,
                      [i \in 1..Len(ingredients) |->
                          DependencyNode(ingredients[i].item_id,
                                         ingredients[i].item_name,
                                         ingredients[i].quantity * quantity,
                                         FALSE, <<>>)])

cycle_leaf(item_id, item, quantity) ==
    DependencyNode(item_id, item.name, quantity, Len(item.variants) > 0, <<>>)

\* "Utilise la premiere variante"
selected_variant_last(item) == item.variants[Len(item.variants)]

selected_variant_second(item) ==
    IF Len(item.variants) > 1 THEN item.variants[2] ELSE item.variants[1]

selected_variant(item) == item.variants[1]

\* the quantity handed to the recursive call, and given to a synthetic leaf
child_quantity_unscaled(ingredient, quantity) == ingredient.quantity

child_quantity_added(ingredient, quantity) == ingredient.quantity + quantity

child_quantity(ingredient, quantity) == ingredient.quantity * quantity

\* visited.add(item_id)
visited_add_forgotten(visited, item_id) == visited

visited_add(visited, item_id) == visited \cup {item_id}

\* the set a call of build_dependency_tree leaves in the set object it was
\* handed: visited.add(item_id) is its only mutation of it, and it is reached
\* for a known item that is not in the set
visited_in_callee(db, item_id, visited) ==
    IF get_item(db, item_id) # None /\ item_id \notin visited
    THEN visited_add(visited, item_id)
    ELSE visited

\* the caller's visited after a recursive call: the call was handed
\* visited.copy(), so what the callee added stays in the copy
visited_after_child_shared(visited, callee_visited) == callee_visited

visited_after_child(visited, callee_visited) == visited

\* the leaf appended for an ingredient whose recursive call returned None:
\* named by the Item row when there is one, else by the name the ingredient
\* stores
synthetic_leaf_craftable(db, ingredient, quantity) ==
    DependencyNode(ingredient.item_id, ingredient.item_name,
                   child_quantity(ingredient, quantity), TRUE, <<>>)

synthetic_leaf(db, ingredient, quantity) ==
    LET ing_item == IF ingredient.item_id \in DOMAIN db
                    THEN db[ingredient.item_id] ELSE None
    IN DependencyNode(ingredient.item_id,
                      IF ing_item # None THEN ing_item.name
                      ELSE ingredient.item_name,
                      child_quantity(ingredient, quantity), FALSE, <<>>)

RECURSIVE build_dependency_tree(_, _, _, _, _)
RECURSIVE build_children(_, _, _, _, _, _)

\* the for loop of build_dependency_tree over variant.ingredients, from
\* position i on: the children list, or RecursionError when a call raises
build_children(db, ingredients, i, quantity, visited, depth) ==
    IF i > Len(ingredients) THEN List(<<>>)
    ELSE LET ingredient == ingredients[i]
             child == build_dependency_tree(
                          db, ingredient.item_id,
                          child_quantity(ingredient, quantity),
                          visited, depth + 1)
         IN IF child = RecursionError THEN RecursionError
            ELSE LET node == IF child # None THEN child
                             ELSE synthetic_leaf(db, ingredient, quantity)
                     rest == build_children(
                                 db, ingredients, i + 1, quantity,
                                 visited_after_child(
                                     visited,
                                     visited_in_callee(db, ingredient.item_id,
                                                       visited)),
                                 depth)
                 IN IF rest = RecursionError THEN RecursionError
                    ELSE List(<<node>> \o rest.list)

\* depth is the number of frames of build_dependency_tree on the call stack
build_dependency_tree(db, item_id, quantity, visited, depth) ==
    IF depth > RecursionLimit THEN RecursionError
    ELSE LET item == get_item(db, item_id) IN
         IF item = None THEN None
         ELSE IF item_id \in visited
         THEN cycle_leaf(item_id, item, quantity)
         ELSE LET visited2 == visited_add(visited, item_id)
                  children ==
                      IF Len(item.variants) > 0
                      THEN build_children(db, selected_variant(item).ingredients,
                                          1, quantity, visited2, depth)
                      ELSE List(<<>>)
              IN IF children = RecursionError THEN RecursionError
                 ELSE DependencyNode(item_id, item.name, quantity,
                                     Len(item.variants) > 0, children.list)

\* resources[node.item_id] += node.quantity on the insertion-ordered dict
\* (resources and resource_names together), created at 0 on first sight
accumulate_overwrite(resources, node) ==
    IF \E i \in 1..Len(resources) : resources[i].item_id = node.item_id
    THEN [i \in 1..Len(resources) |->
            IF resources[i].item_id = node.item_id
            THEN [resources[i] EXCEPT !.quantity = node.quantity]
            ELSE resources[i]]
    ELSE Append(resources,
                [item_id |-> node.item_id, item_name |-> node.item_name,
                 quantity |-> node.quantity])

accumulate(resources, node) ==
    IF \E i \in 1..Len(resources) : resources[i].item_id = node.item_id
    THEN [i \in 1..Len(resources) |->
            IF resources[i].item_id = node.item_id
            THEN [resources[i] EXCEPT !.quantity = @ + node.quantity]
            ELSE resources[i]]
    ELSE Append(resources,
                [item_id |-> node.item_id, item_name |-> node.item_name,
                 quantity |-> 0 + node.quantity])

RECURSIVE collect_resources(_, _)
RECURSIVE collect_children(_, _, _)

collect_children(children, i, resources) ==
    IF i > Len(children) THEN resources
    ELSE collect_children(children, i + 1,
                          collect_resources(children[i], resources))

\* the inner function of calculate_total_resources: the dict after the walk
collect_resources(node, resources) ==
    IF Len(node.children) = 0
    THEN accumulate(resources, node)
    ELSE collect_children(node.children, 1, resources)

\* sorted(resources.items(), key=lambda x: x[1], reverse=True): a stable sort,
\* so an entry goes behind every entry placed before it whose quantity is
\* at least its own
sorted_insert_before_ties(sorted, e) ==
    LET p == Cardinality({i \in 1..Len(sorted) : sorted[i].quantity > e.quantity})
    IN SubSeq(sorted, 1, p) \o <<e>> \o SubSeq(sorted, p + 1, Len(sorted))

sorted_insert(sorted, e) ==
    LET p == Cardinality({i \in 1..Len(sorted) : sorted[i].quantity >= e.quantity})
    IN SubSeq(sorted, 1, p) \o <<e>> \o SubSeq(sorted, p + 1, Len(sorted))

RECURSIVE sorted_reverse(_)
sorted_reverse(entries) ==
    IF entries = <<>> THEN <<>>
    ELSE sorted_insert(sorted_reverse(SubSeq(entries, 1, Len(entries) - 1)),
                       entries[Len(entries)])

calculate_total_resources(db, item_id, quantity) ==
    LET tree == build_dependency_tree(db, item_id, quantity, {}, 1) IN
    IF tree = RecursionError THEN RecursionError
    ELSE LET resources == IF tree # None THEN collect_resources(tree, <<>>)
                          ELSE <<>>
             ordered == sorted_reverse(resources)
         IN List([i \in 1..Len(ordered) |->
                     ResourceCalculation(ordered[i].item_id, ordered[i].item_name,
                                         ordered[i].quantity)])

----------------------------------------------------------------------------
(* app/api/recipes.py *)

NotFound == [status |-> 404, body |-> [detail |-> "Recipe not found"]]
ServerError(exc) == [status |-> 500, body |-> exc]
Ok(body) == [status |-> 200, body |-> body]

\* GET /recipes/{item_id}/dependencies?quantity=
get_dependencies_default_quantity(item_id, quantity) ==
    /\ request = None
    /\ request' = [op |-> "dependencies", item_id |-> item_id, quantity |-> quantity]
    /\ LET tree == build_dependency_tree(items, item_id, 1, {}, 1) IN
       response' = IF tree = RecursionError THEN ServerError(tree)
                   ELSE IF tree = None THEN NotFound
                   ELSE Ok(tree)
    /\ UNCHANGED tables

get_dependencies(item_id, quantity) ==
    /\ request = None
    /\ request' = [op |-> "dependencies", item_id |-> item_id, quantity |-> quantity]
    /\ LET tree == build_dependency_tree(items, item_id, quantity, {}, 1) IN
       response' = IF tree = RecursionError THEN ServerError(tree)
                   ELSE IF tree = None THEN NotFound
                   ELSE Ok(tree)
    /\ UNCHANGED tables

\* GET /recipes/{item_id}/resources?quantity=
get_resources(item_id, quantity) ==
    /\ request = None
    /\ request' = [op |-> "resources", item_id |-> item_id, quantity |-> quantity]
    /\ LET resources == calculate_total_resources(items, item_id, quantity) IN
       response' = IF resources = RecursionError THEN ServerError(resources)
                   ELSE IF Len(resources.list) = 0
                           /\ get_item(items, item_id) = None
                   THEN NotFound
                   ELSE Ok(resources.list)
    /\ UNCHANGED tables

\* a handler that kept its last result in the module
SendResponse_keeps_result ==
    /\ request # None
    /\ request' = None
    /\ response' = response
    /\ UNCHANGED tables

\* the handler returns: the response goes out and nothing of the request
\* stays behind in the service
SendResponse ==
    /\ request # None
    /\ request' = None
    /\ response' = None
    /\ UNCHANGED tables

----------------------------------------------------------------------------
(* app/api/items.py: the upgrade tree *)

UpgradeTreeNode(row_id, name, icon_path, children) ==
    [row_id |-> row_id, name |-> name, icon_path |-> icon_path,
     children |-> children]

\* each row replaces the list of its source instead of extending it
children_map_overwritten(all_upgrades) ==
    [source \in {all_upgrades[i].source_item_row_id : i \in 1..Len(all_upgrades)} |->
        LET of_source(u) == u.source_item_row_id = source
            rows == SelectSeq(all_upgrades, of_source)
        IN <<rows[Len(rows)].output_item_row_id>>]

\* children_map after the loop over all_upgrades: source -> outputs, in order
children_map(all_upgrades) ==
    [source \in {all_upgrades[i].source_item_row_id : i \in 1..Len(all_upgrades)} |->
        LET of_source(u) == u.source_item_row_id = source
            rows == SelectSeq(all_upgrades, of_source)
        IN [i \in 1..Len(rows) |-> rows[i].output_item_row_id]]

\* the first row of an output is kept
parents_map_first_wins(all_upgrades) ==
    [output \in {all_upgrades[i].output_item_row_id : i \in 1..Len(all_upgrades)} |->
        LET first == CHOOSE i \in 1..Len(all_upgrades) :
                         /\ all_upgrades[i].output_item_row_id = output
                         /\ \A j \in 1..(i - 1) :
                                all_upgrades[j].output_item_row_id # output
        IN all_upgrades[first].source_item_row_id]

\* parents_map after the loop: output -> source; a later row overwrites
parents_map(all_upgrades) ==
    [output \in {all_upgrades[i].output_item_row_id : i \in 1..Len(all_upgrades)} |->
        LET last == CHOOSE i \in 1..Len(all_upgrades) :
                        /\ all_upgrades[i].output_item_row_id = output
                        /\ \A j \in (i + 1)..Len(all_upgrades) :
                               all_upgrades[j].output_item_row_id # output
        IN all_upgrades[last].source_item_row_id]

\* children_map.get(id, [])
children_of(cmap, id) == IF id \in DOMAIN cmap THEN cmap[id] ELSE <<>>

\* step 3: climb parents_map from current until an item without parent, or
\* until the parent was already visited
find_root_one_step(pmap, current, visited) ==
    IF current \in DOMAIN pmap /\ pmap[current] \notin visited
    THEN pmap[current]
    ELSE current

RECURSIVE find_root(_, _, _)
find_root(pmap, current, visited) ==
    IF current \in DOMAIN pmap
    THEN LET parent == pmap[current] IN
         IF parent \in visited THEN current
         ELSE find_root(pmap, parent, visited \cup {parent})
    ELSE current

\* the children of current the loop of step 5 appends to the queue
unseen_children(cmap, current, tree_item_ids) ==
    LET unseen(child) == child \notin tree_item_ids
    IN SelectSeq(children_of(cmap, current), unseen)

\* step 5: the breadth-first collection of the ids below the root
RECURSIVE collect_tree_item_ids(_, _, _)
collect_tree_item_ids(cmap, queue, tree_item_ids) ==
    IF queue = <<>> THEN tree_item_ids
    ELSE LET current == Head(queue)
             seen == tree_item_ids \cup {current}
         IN collect_tree_item_ids(
                cmap, Tail(queue) \o unseen_children(cmap, current, seen), seen)

RECURSIVE build_node(_, _, _, _)
RECURSIVE build_nodes(_, _, _, _, _)

\* the list comprehension of build_node over the children, from position i
build_nodes(cmap, items_map, child_ids, i, depth) ==
    IF i > Len(child_ids) THEN List(<<>>)
    ELSE LET node == build_node(cmap, items_map, child_ids[i], depth + 1) IN
         IF node = RecursionError THEN RecursionError
         ELSE LET rest == build_nodes(cmap, items_map, child_ids, i + 1, depth) IN
              IF rest = RecursionError THEN RecursionError
              ELSE List(<<node>> \o rest.list)

\* step 7; depth is the number of frames of build_node on the call stack
build_node(cmap, items_map, item_row_id, depth) ==
    IF depth > RecursionLimit THEN RecursionError
    ELSE LET item == get_item(items_map, item_row_id)
             children == build_nodes(cmap, items_map,
                                     children_of(cmap, item_row_id), 1, depth)
         IN IF children = RecursionError THEN RecursionError
            ELSE UpgradeTreeNode(
                     item_row_id,
                     IF item # None THEN item.name ELSE None,
                     IF item # None THEN item.icon_path ELSE None,
                     children.list)

\* a tree that starts at the queried item, without the climb
upgrade_root_is_item(all_upgrades, row_id) == row_id

\* root_id of _get_full_upgrade_tree
upgrade_root(all_upgrades, row_id) ==
    find_root(parents_map(all_upgrades), row_id, {row_id})

\* step 4: the item takes part in no upgrade
not_in_upgrade_tree_without_children(cmap, pmap, root_id, row_id) ==
    row_id \notin DOMAIN cmap

not_in_upgrade_tree(cmap, pmap, root_id, row_id) ==
    /\ root_id \notin DOMAIN cmap /\ root_id \notin DOMAIN pmap
    /\ row_id \notin DOMAIN cmap /\ row_id \notin DOMAIN pmap

get_full_upgrade_tree(db_items, all_upgrades, row_id) ==
    IF Len(all_upgrades) = 0 THEN None
    ELSE LET cmap == children_map(all_upgrades)
             pmap == parents_map(all_upgrades)
             root_id == upgrade_root(all_upgrades, row_id)
         IN IF not_in_upgrade_tree(cmap, pmap, root_id, row_id)
            THEN None
            ELSE LET tree_item_ids == collect_tree_item_ids(cmap, <<root_id>>, {})
                     items_map == [id \in tree_item_ids \cap DOMAIN db_items |->
                                      db_items[id]]
                 IN build_node(cmap, items_map, root_id, 1)

----------------------------------------------------------------------------
(* app/api/items.py: the recipes of the item response *)

\* a RecipeIngredient row; the import stores the group's row id in item_row_id
\* and in substitute_group_row_id when the ingredient is a substitution group
RecipeIngredient(item_row_id, quantity, is_substitute_group, position) ==
    [item_row_id |-> item_row_id, quantity |-> quantity,
     is_substitute_group |-> is_substitute_group,
     substitute_group_row_id |->
         IF is_substitute_group THEN item_row_id ELSE None,
     position |-> position]

Recipe(row_id, output_item_row_id, ingredients) ==
    [row_id |-> row_id, output_item_row_id |-> output_item_row_id,
     ingredients |-> ingredients]

IngredientItemResponse(item) ==
    [row_id |-> item.row_id, name |-> item.name, icon_path |-> item.icon_path]

RecipeIngredientResponse(ing, final_row_id, is_expanded, item_info) ==
    [item_row_id |-> final_row_id,
     quantity |-> ing.quantity,
     is_substitute_group |->
         IF is_expanded THEN FALSE ELSE ing.is_substitute_group,
     substitute_group_row_id |->
         IF is_expanded THEN None ELSE ing.substitute_group_row_id,
     position |-> ing.position,
     item |-> IF item_info # None THEN IngredientItemResponse(item_info)
              ELSE None]

RecipeResponse(recipe, enriched_ingredients) ==
    [row_id |-> recipe.row_id,
     output_item_row_id |-> recipe.output_item_row_id,
     ingredients |-> enriched_ingredients]

\* sorted(recipe.ingredients, key=lambda x: x.position): a stable sort, so an
\* ingredient goes behind those placed before it whose position is not larger
sorted_by_position_insert(sorted, ing) ==
    LET p == Cardinality({i \in 1..Len(sorted) :
                             sorted[i].position <= ing.position})
    IN SubSeq(sorted, 1, p) \o <<ing>> \o SubSeq(sorted, p + 1, Len(sorted))

RECURSIVE sorted_by_position(_)
sorted_by_position(ingredients) ==
    IF ingredients = <<>> THEN <<>>
    ELSE sorted_by_position_insert(
             sorted_by_position(SubSeq(ingredients, 1, Len(ingredients) - 1)),
             ingredients[Len(ingredients)])

\* the Item rows a query by row_id returns: (row_id, name, icon_path)
item_info_of(db_items, row_id) ==
    IF row_id \in DOMAIN db_items
    THEN [row_id |-> row_id, name |-> db_items[row_id].name,
          icon_path |-> db_items[row_id].icon_path]
    ELSE None

\* zip() stops at the shorter of the two lists
build_recipe_response(db_items, recipe, ingredient_row_ids, is_expanded) ==
    LET sorted == sorted_by_position(recipe.ingredients)
        n == IF Len(sorted) < Len(ingredient_row_ids)
             THEN Len(sorted) ELSE Len(ingredient_row_ids)
    IN RecipeResponse(
           recipe,
           [idx \in 1..n |->
               RecipeIngredientResponse(
                   sorted[idx], ingredient_row_ids[idx], is_expanded,
                   item_info_of(db_items, ingredient_row_ids[idx]))])

\* the row ids of the ingredients flagged as substitution group in the
\* recipes of the item
substitute_row_ids(item_recipes) ==
    UNION {{item_recipes[r].ingredients[i].item_row_id :
               i \in {k \in 1..Len(item_recipes[r].ingredients) :
                         item_recipes[r].ingredients[k].is_substitute_group}} :
           r \in 1..Len(item_recipes)}

\* substitute_groups: the member lists of the groups that exist
substitute_groups(db_substitutes, item_recipes) ==
    [sub_row_id \in substitute_row_ids(item_recipes) \cap DOMAIN db_substitutes |->
        db_substitutes[sub_row_id]]

resolvable(ing, groups) ==
    ing.is_substitute_group /\ ing.item_row_id \in DOMAIN groups

has_substitutes(sorted_ingredients, groups) ==
    \E i \in 1..Len(sorted_ingredients) : resolvable(sorted_ingredients[i], groups)

\* an ingredient whose group cannot be resolved offers nothing
variant_options_dangling_dropped(sorted_ingredients, groups) ==
    [i \in 1..Len(sorted_ingredients) |->
        IF resolvable(sorted_ingredients[i], groups)
        THEN groups[sorted_ingredients[i].item_row_id]
        ELSE IF sorted_ingredients[i].is_substitute_group THEN <<>>
        ELSE <<sorted_ingredients[i].item_row_id>>]

\* per ingredient, the item row ids that can stand in its position
variant_options(sorted_ingredients, groups) ==
    [i \in 1..Len(sorted_ingredients) |->
        IF resolvable(sorted_ingredients[i], groups)
        THEN groups[sorted_ingredients[i].item_row_id]
        ELSE <<sorted_ingredients[i].item_row_id>>]

\* itertools.product(*options[i..]): the last position varies fastest
RECURSIVE product(_, _)
product(options, i) ==
    IF i > Len(options) THEN << <<>> >>
    ELSE LET rest == product(options, i + 1)
             m == Len(rest)
         IN [j \in 1..(Len(options[i]) * m) |->
                <<options[i][((j - 1) \div m) + 1]>> \o rest[((j - 1) % m) + 1]]

\* the recipes one Recipe row adds to enriched_recipes
expand_recipe(db_items, recipe, groups) ==
    LET sorted_ingredients == sorted_by_position(recipe.ingredients) IN
    IF ~has_substitutes(sorted_ingredients, groups)
    THEN <<build_recipe_response(
               db_items, recipe,
               [i \in 1..Len(sorted_ingredients) |->
                   sorted_ingredients[i].item_row_id],
               FALSE)>>
    ELSE LET combinations == product(variant_options(sorted_ingredients, groups), 1)
         IN [c \in 1..Len(combinations) |->
                build_recipe_response(db_items, recipe, combinations[c], TRUE)]

RECURSIVE enrich_recipes(_, _, _, _)
enrich_recipes(db_items, item_recipes, r, groups) ==
    IF r > Len(item_recipes) THEN <<>>
    ELSE expand_recipe(db_items, item_recipes[r], groups)
         \o enrich_recipes(db_items, item_recipes, r + 1, groups)

\* enriched_recipes of get_item: the recipes that produce row_id, expanded
enriched_recipes(db_items, db_recipes, db_substitutes, row_id) ==
    LET produces(recipe) == recipe.output_item_row_id = row_id
        item_recipes == SelectSeq(db_recipes, produces)
    IN enrich_recipes(db_items, item_recipes, 1,
                      substitute_groups(db_substitutes, item_recipes))

----------------------------------------------------------------------------
(* app/api/items.py: the cooking chain *)

\* a NULL cooked_item_row_id; the code only tests the truth value of the
\* column (while current_id), which is that of an empty string
Null == ""

Consumable(cooked_item_row_id, requires_baking) ==
    [cooked_item_row_id |-> cooked_item_row_id,
     requires_baking |-> requires_baking]

LinkedItemResponse(row_id, name, icon_path, requires_baking) ==
    [row_id |-> row_id, name |-> name, icon_path |-> icon_path,
     requires_baking |-> requires_baking]

\* a parent query that takes any item that cooks into something
cooking_parents_of_any(db_items, db_consumables, current_id) ==
    {id \in DOMAIN db_items \cap DOMAIN db_consumables :
        db_consumables[id].cooked_item_row_id # Null}

\* the rows of Item joined with Consumable whose cooked_item_row_id is
\* current_id
cooking_parents(db_items, db_consumables, current_id) ==
    {id \in DOMAIN db_items \cap DOMAIN db_consumables :
        db_consumables[id].cooked_item_row_id = current_id}

\* what .first() can return for each current_id: the query has no ORDER BY,
\* so any of the rows; first[id] stands for the row returned for id
FirstRows(db_items, db_consumables) ==
    {first \in [RowIds -> RowIds] :
        \A id \in RowIds :
            IF cooking_parents(db_items, db_consumables, id) = {}
            THEN first[id] = id
            ELSE first[id] \in cooking_parents(db_items, db_consumables, id)}

\* a loop that is still running after LoopLimit iterations never ends
Diverges == [diverges |-> TRUE]

\* the cycle guards: parent.row_id in visited, current_id in visited
already_visited_never(id, visited) == FALSE

already_visited(id, visited) == id \in visited

\* the backward walk stops at the first item instead of going on to the root
cooking_root_one_step(db_items, db_consumables, first, current_id, visited, steps) ==
    IF cooking_parents(db_items, db_consumables, current_id) = {}
       \/ already_visited(first[current_id], visited)
    THEN [row_id |-> current_id]
    ELSE [row_id |-> first[current_id]]

\* the first loop: climb from current_id to the item nothing cooks into, or
\* to the item whose parent was already visited; steps counts the iterations
RECURSIVE cooking_root(_, _, _, _, _, _)
cooking_root(db_items, db_consumables, first, current_id, visited, steps) ==
    IF steps > LoopLimit THEN Diverges
    ELSE IF cooking_parents(db_items, db_consumables, current_id) = {}
            \/ already_visited(first[current_id], visited)
    THEN [row_id |-> current_id]
    ELSE cooking_root(db_items, db_consumables, first, first[current_id],
                      visited \cup {first[current_id]}, steps + 1)

\* the second loop: the chain from current_id on along cooked_item_row_id
RECURSIVE cooking_chain_from(_, _, _, _, _)
cooking_chain_from(db_items, db_consumables, current_id, visited, steps) ==
    IF steps > LoopLimit THEN Diverges
    ELSE IF current_id = Null \/ already_visited(current_id, visited)
    THEN List(<<>>)
    ELSE IF current_id \notin DOMAIN db_items THEN List(<<>>)
    ELSE IF current_id \in DOMAIN db_consumables
    THEN LET rest == cooking_chain_from(
                         db_items, db_consumables,
                         db_consumables[current_id].cooked_item_row_id,
                         visited \cup {current_id}, steps + 1)
         IN IF rest = Diverges THEN Diverges
            ELSE List(<<LinkedItemResponse(
                            current_id, db_items[current_id].name,
                            db_items[current_id].icon_path,
                            db_consumables[current_id].requires_baking)>>
                      \o rest.list)
    ELSE List(<<LinkedItemResponse(current_id, db_items[current_id].name,
                                   db_items[current_id].icon_path, None)>>)

\* the chain is returned whatever its length
get_full_cooking_chain_unfiltered(db_items, db_consumables, first, row_id) ==
    LET root == cooking_root(db_items, db_consumables, first, row_id, {row_id}, 1)
    IN IF root = Diverges THEN Diverges
       ELSE cooking_chain_from(db_items, db_consumables, root.row_id, {}, 1)

\* the list the function returns, or Diverges when one of its loops never ends
get_full_cooking_chain(db_items, db_consumables, first, row_id) ==
    LET root == cooking_root(db_items, db_consumables, first, row_id, {row_id}, 1)
    IN IF root = Diverges THEN Diverges
       ELSE LET chain == cooking_chain_from(db_items, db_consumables,
                                            root.row_id, {}, 1)
            IN IF chain = Diverges THEN Diverges
               ELSE IF Len(chain.list) > 1 THEN chain ELSE List(<<>>)

----------------------------------------------------------------------------
(* app/api/items.py: GET /items/{row_id} *)

\* the handler is still inside a loop: the client gets no answer from it
NoResponse == [status |-> 504, body |-> Diverges]

ItemNotFound(row_id) ==
    [status |-> 404, body |-> [detail |-> <<"Item non trouve", row_id>>]]

\* GET /items/{row_id}: the recipes, the upgrade_tree and the cooking_chain
\* of the item response
items_get_item(row_id) ==
    /\ request = None
    /\ request' = [op |-> "item", row_id |-> row_id]
    /\ IF row_id \notin DOMAIN items
       THEN response' = ItemNotFound(row_id)
       ELSE \E first \in FirstRows(items, consumables) :
            LET item_recipes == enriched_recipes(items, recipes, substitutes, row_id)
                upgrade_tree == get_full_upgrade_tree(items, upgrades, row_id)
                cooking_chain == get_full_cooking_chain(items, consumables,
                                                        first, row_id)
            IN response' = IF upgrade_tree = RecursionError
                           THEN ServerError(upgrade_tree)
                           ELSE IF cooking_chain = Diverges
                           THEN NoResponse
                           ELSE Ok([recipes |-> item_recipes,
                                    upgrade_tree |-> upgrade_tree,
                                    cooking_chain |-> cooking_chain.list])
    /\ UNCHANGED tables

----------------------------------------------------------------------------
(* app/models/order.py, app/schemas/order.py, app/services/order_service.py *)

\* number of orders ever created
MaxOrders == 1

\* the authenticated users (User.id)
Users == {"u1", "u2"}

\* OrderStatus
PENDING == "pending"
ACCEPTED == "accepted"
IN_PROGRESS == "in_progress"
MISSING_RESOURCES == "missing_resources"
COMPLETED == "completed"
CANCELLED == "cancelled"

OrderStatus ==
    {PENDING, ACCEPTED, IN_PROGRESS, MISSING_RESOURCES, COMPLETED, CANCELLED}

\* a notes text, stored as sent
Note == [text |-> "note"]

OrderItemCreate(item_id, quantity) == [item_id |-> item_id, quantity |-> quantity]

MissingResource(item_id, quantity_needed) ==
    [item_id |-> item_id, item_name |-> NameOf(item_id),
     quantity_needed |-> quantity_needed]

\* the request bodies: an absent status is Null, absent notes and an absent
\* missing_resources list are None
OrderCreate(order_items, notes) == [items |-> order_items, notes |-> notes]

OrderUpdate(status, notes, missing_resources) ==
    [status |-> status, notes |-> notes, missing_resources |-> missing_resources]

\* a new Order row: crafter_id is NULL, status takes the column default
Order(requester_id, order_items, notes) ==
    [requester_id |-> requester_id, crafter_id |-> Null, status |-> PENDING,
     notes |-> notes, missing_resources |-> None, items |-> order_items]

\* the row create_order adds: the caller is the requester
create_order(user, order_data) ==
    Order(user, order_data.items, order_data.notes)

get_order(db_orders, order_id) ==
    IF order_id \in DOMAIN db_orders THEN db_orders[order_id] ELSE None

\* "Auto-assign crafter when accepting"
auto_assign_crafter(order, user, status) ==
    IF status = ACCEPTED /\ order.crafter_id = Null
    THEN user
    ELSE order.crafter_id

\* the row after update_order
update_order(order, user, update_data) ==
    LET with_status ==
            IF update_data.status # Null
            THEN [order EXCEPT
                     !.status = update_data.status,
                     !.crafter_id = auto_assign_crafter(order, user,
                                                        update_data.status)]
            ELSE order
        with_notes ==
            IF update_data.notes # None
            THEN [with_status EXCEPT !.notes = update_data.notes]
            ELSE with_status
    IN IF update_data.missing_resources # None
       THEN [with_notes EXCEPT
                !.missing_resources = update_data.missing_resources,
                !.status = IF Len(update_data.missing_resources.list) > 0
                           THEN MISSING_RESOURCES ELSE @]
       ELSE with_notes

\* the row after cancel_order
cancel_order(order) == [order EXCEPT !.status = CANCELLED]

order_to_response(id, order) ==
    [id |-> id, requester_id |-> order.requester_id,
     crafter_id |-> order.crafter_id, status |-> order.status,
     notes |-> order.notes,
     missing_resources |->
         IF order.missing_resources # None
            /\ Len(order.missing_resources.list) > 0
         THEN order.missing_resources ELSE None,
     items |-> order.items]

----------------------------------------------------------------------------
(* app/api/orders.py *)

HTTPException(status_code, detail) ==
    [status |-> status_code, body |-> [detail |-> detail]]

OrderNotFound == HTTPException(404, "Order not found")

\* POST /orders
create_new_order(user, order_data) ==
    /\ request = None
    /\ Len(orders) < MaxOrders
    /\ request' = [op |-> "create", user_id |-> user, order_data |-> order_data]
    /\ orders' = Append(orders, create_order(user, order_data))
    /\ response' = Ok(order_to_response(Len(orders) + 1,
                                        create_order(user, order_data)))
    /\ UNCHANGED catalog

\* GET /orders/{order_id}
get_order_by_id(order_id) ==
    /\ request = None
    /\ request' = [op |-> "get", order_id |-> order_id]
    /\ response' = IF get_order(orders, order_id) = None THEN OrderNotFound
                   ELSE Ok(order_to_response(order_id, orders[order_id]))
    /\ UNCHANGED tables

\* PATCH /orders/{order_id}
update_order_by_id(order_id, user, update_data) ==
    /\ request = None
    /\ request' = [op |-> "update", order_id |-> order_id, user_id |-> user,
                   update_data |-> update_data]
    /\ IF get_order(orders, order_id) = None
       THEN /\ response' = OrderNotFound
            /\ orders' = orders
       ELSE LET order == update_order(orders[order_id], user, update_data) IN
            /\ orders' = [orders EXCEPT ![order_id] = order]
            /\ response' = Ok(order_to_response(order_id, order))
    /\ UNCHANGED catalog

\* an accept that does not look at the status
accept_order_any_status(order_id, user) ==
    /\ request = None
    /\ request' = [op |-> "accept", order_id |-> order_id, user_id |-> user]
    /\ IF get_order(orders, order_id) = None
       THEN /\ response' = OrderNotFound
            /\ orders' = orders
       ELSE LET order == update_order(orders[order_id], user,
                                      OrderUpdate(ACCEPTED, None, None)) IN
            /\ orders' = [orders EXCEPT ![order_id] = order]
            /\ response' = Ok(order_to_response(order_id, order))
    /\ UNCHANGED catalog

\* POST /orders/{order_id}/accept
accept_order(order_id, user) ==
    /\ request = None
    /\ request' = [op |-> "accept", order_id |-> order_id, user_id |-> user]
    /\ IF get_order(orders, order_id) = None
       THEN /\ response' = OrderNotFound
            /\ orders' = orders
       ELSE IF orders[order_id].status # PENDING
       THEN /\ response' = HTTPException(400, "Order is not pending")
            /\ orders' = orders
       ELSE LET order == update_order(orders[order_id], user,
                                      OrderUpdate(ACCEPTED, None, None)) IN
            /\ orders' = [orders EXCEPT ![order_id] = order]
            /\ response' = Ok(order_to_response(order_id, order))
    /\ UNCHANGED catalog

\* POST /orders/{order_id}/complete
complete_order(order_id, user) ==
    /\ request = None
    /\ request' = [op |-> "complete", order_id |-> order_id, user_id |-> user]
    /\ IF get_order(orders, order_id) = None
       THEN /\ response' = OrderNotFound
            /\ orders' = orders
       ELSE IF orders[order_id].crafter_id # Null
               /\ orders[order_id].crafter_id # user
       THEN /\ response' = HTTPException(
                               403, "Only the assigned crafter can complete this order")
            /\ orders' = orders
       ELSE LET order == update_order(orders[order_id], user,
                                      OrderUpdate(COMPLETED, None, None)) IN
            /\ orders' = [orders EXCEPT ![order_id] = order]
            /\ response' = Ok(order_to_response(order_id, order))
    /\ UNCHANGED catalog

\* POST /orders/{order_id}/cancel
cancel_order_by_id(order_id, user) ==
    /\ request = None
    /\ request' = [op |-> "cancel", order_id |-> order_id, user_id |-> user]
    /\ IF get_order(orders, order_id) = None
       THEN /\ response' = OrderNotFound
            /\ orders' = orders
       ELSE IF orders[order_id].requester_id # user
       THEN /\ response' = HTTPException(
                               403, "Only the requester can cancel this order")
            /\ orders' = orders
       ELSE LET order == cancel_order(orders[order_id]) IN
            /\ orders' = [orders EXCEPT ![order_id] = order]
            /\ response' = Ok(order_to_response(order_id, order))
    /\ UNCHANGED catalog

----------------------------------------------------------------------------
(* The dependency engine: requests against a catalog of recipes *)

Init ==
    /\ items \in Catalogs
    /\ upgrades = <<>>
    /\ recipes = <<>>
    /\ substitutes = <<>>
    /\ consumables = <<>>
    /\ orders = <<>>
    /\ request = None
    /\ response = None

Dependencies == \E id \in AllIds, q \in 1..MaxQuantity : get_dependencies(id, q)

Resources == \E id \in AllIds, q \in 1..MaxQuantity : get_resources(id, q)

Next == Dependencies \/ Resources \/ SendResponse

Spec == Init /\ [][Next]_vars

----------------------------------------------------------------------------
(* The upgrade tree resolver: item requests against an ItemUpgrade table *)

ItemUpgrade(source, output) ==
    [source_item_row_id |-> source, output_item_row_id |-> output]

UpgradeRows == {ItemUpgrade(s, o) : s \in RowIds, o \in RowIds}

UpgradeTables == UNION {[1..n -> UpgradeRows] : n \in 0..MaxUpgrades}

\* the Item table holds a row for some of the ids the upgrades refer to
ItemTables == {[id \in known |-> ItemRow(id)] : known \in SUBSET RowIds}

InitUpgrade ==
    /\ items \in ItemTables
    /\ upgrades \in UpgradeTables
    /\ recipes = <<>>
    /\ substitutes = <<>>
    /\ consumables = <<>>
    /\ orders = <<>>
    /\ request = None
    /\ response = None

GetItem == \E row_id \in RowIds : items_get_item(row_id)

NextUpgrade == GetItem \/ SendResponse

SpecUpgrade == InitUpgrade /\ [][NextUpgrade]_vars

----------------------------------------------------------------------------
(* The recipe variant expansion: item requests against a Recipe table *)

\* the row id of a substitution group (a RecipeSubstitute row, when there is
\* one) and the row ids an ingredient can name
GroupRowId == "g"
IngredientRowIds == {"a", GroupRowId}
\* the items a group can list, and the items of the Item table
MemberRowIds == {"a", "b"}
RecipeQuantities == {1, 2}
Positions == {0, 1}

RecipeIngredients ==
    {RecipeIngredient(id, q, flag, pos) :
        id \in IngredientRowIds, q \in RecipeQuantities,
        flag \in BOOLEAN, pos \in Positions}

\* the Recipe table: no recipe, or one recipe producing an item
RecipeTables ==
    {<<>>}
    \cup {<<Recipe("recipe", output, ingredients)>> :
             output \in MemberRowIds,
             ingredients \in UNION {[1..n -> RecipeIngredients] :
                                       n \in 0..MaxIngredients}}

\* the group does not exist, or lists its members (an item may be listed
\* twice: nothing makes the rows of a group unique)
SubstituteTables ==
    {<<>>}
    \cup {[id \in {GroupRowId} |-> members] :
             members \in UNION {[1..n -> MemberRowIds] : n \in 0..MaxGroupSize}}

RecipeItemTables ==
    {[id \in known |-> ItemRow(id)] : known \in {{"a"}, {"a", "b"}}}

InitRecipes ==
    /\ items \in RecipeItemTables
    /\ upgrades = <<>>
    /\ recipes \in RecipeTables
    /\ substitutes \in SubstituteTables
    /\ consumables = <<>>
    /\ orders = <<>>
    /\ request = None
    /\ response = None

SpecRecipes == InitRecipes /\ [][NextUpgrade]_vars

----------------------------------------------------------------------------
(* The cooking chain resolver: item requests against a Consumable table *)

\* a Consumable row belongs to an Item row; its cooked_item_row_id is NULL
\* or any row id, also one without Item row
ConsumableRows ==
    {Consumable(cooked, baking) :
        cooked \in RowIds \cup {Null}, baking \in BOOLEAN}

ConsumableTables(db_items) ==
    UNION {[with -> ConsumableRows] : with \in SUBSET DOMAIN db_items}

InitCooking ==
    /\ items \in ItemTables
    /\ upgrades = <<>>
    /\ recipes = <<>>
    /\ substitutes = <<>>
    /\ consumables \in ConsumableTables(items)
    /\ orders = <<>>
    /\ request = None
    /\ response = None

SpecCooking == InitCooking /\ [][NextUpgrade]_vars

----------------------------------------------------------------------------
(* Reading a dependency tree and the recipe graph *)

\* every node of a tree with the item ids on the path from the root to it
\* (the node's own id excluded)
RECURSIVE Occurrences(_, _)
Occurrences(node, path) ==
    {[node |-> node, path |-> path]}
    \cup UNION {Occurrences(node.children[i], Append(path, node.item_id)) :
                    i \in 1..Len(node.children)}

OnPath(occ) == \E i \in 1..Len(occ.path) : occ.path[i] = occ.node.item_id

Known(id) == id \in DOMAIN items

Craftable(id) == Known(id) /\ Len(items[id].variants) > 0

\* the ingredients of the first variant of an item (none when it has none)
FirstIngredients(id) ==
    IF Craftable(id) THEN items[id].variants[1].ingredients ELSE <<>>

IngredientIds(id) ==
    {FirstIngredients(id)[i].item_id : i \in 1..Len(FirstIngredients(id))}

\* the ids reachable from a set of ids along first-variant ingredients
RECURSIVE RecipeClosure(_)
RecipeClosure(ids) ==
    LET more == ids \cup UNION {IngredientIds(id) : id \in ids} IN
    IF more = ids THEN ids ELSE RecipeClosure(more)

\* id lies on a cycle of the recipe graph
OnRecipeCycle(id) == id \in RecipeClosure(IngredientIds(id))

\* the recipe graph reachable from id contains a cycle
RecipeCycleFrom(id) == \E n \in RecipeClosure({id}) : OnRecipeCycle(n)

AcyclicCatalog == \A id \in DOMAIN items : ~OnRecipeCycle(id)

DependenciesAnswered == request # None /\ request.op = "dependencies"

ResourcesAnswered == request # None /\ request.op = "resources"

\* the tree a dependencies request was answered with
AnsweredTree == response.body

TreeAnswered == DependenciesAnswered /\ response.status = 200

----------------------------------------------------------------------------
(* Claims about the dependency tree builder *)

\* C3: when the recipe graph reachable from the requested item contains a
\* cycle, the dependencies request still ends with a tree (no exhausted call
\* stack), and every node whose item id already occurs on the path from the
\* root to it has no children.
C3_CycleTerminatesWithLeaf ==
    (DependenciesAnswered /\ Known(request.item_id)
        /\ RecipeCycleFrom(request.item_id))
    => /\ response.status = 200
       /\ \A occ \in Occurrences(AnsweredTree, <<>>) :
             OnPath(occ) => occ.node.children = <<>>

C3_Witness ==
    /\ TreeAnswered
    /\ RecipeCycleFrom(request.item_id)
    /\ ~OnRecipeCycle(request.item_id)
    /\ \E occ \in Occurrences(AnsweredTree, <<>>) :
          OnPath(occ) /\ Len(occ.path) = 2

\* the quantity of the ingredient a child node stands for, times the
\* quantity of its parent
ExpectedQuantity(parent, i) ==
    FirstIngredients(parent.item_id)[i].quantity * parent.quantity

\* C4 as stated: a node cut because its id is on the path is not craftable.
C4_CutLeafNotCraftable ==
    TreeAnswered
    => \A occ \in Occurrences(AnsweredTree, <<>>) :
          OnPath(occ) => occ.node.craftable = FALSE

\* C4 (amended): a node cut because its id is on the path has no children,
\* the quantity that was passed in for it (its ingredient quantity times the
\* parent's quantity) and craftable as the catalog says: true, since an item
\* on the path has a recipe.
C4_CutLeafKeepsCatalogFlag ==
    TreeAnswered
    => \A occ \in Occurrences(AnsweredTree, <<>>) :
          \A i \in 1..Len(occ.node.children) :
             LET child == occ.node.children[i] IN
             (child.item_id = occ.node.item_id
                \/ \E k \in 1..Len(occ.path) : occ.path[k] = child.item_id)
             => /\ child.children = <<>>
                /\ child.quantity = ExpectedQuantity(occ.node, i)
                /\ child.craftable = Craftable(child.item_id)
                /\ child.craftable = TRUE

C4_Witness ==
    /\ TreeAnswered
    /\ request.quantity = 2
    /\ \E occ \in Occurrences(AnsweredTree, <<>>) :
          OnPath(occ) /\ occ.node.quantity = 4 /\ occ.node.craftable

\* C5 as stated: a node has no children exactly when its item has no recipe
\* or its id is on the path from the root.
C5_LeafIffRawOrCut ==
    TreeAnswered
    => \A occ \in Occurrences(AnsweredTree, <<>>) :
          (occ.node.children = <<>>)
          <=> (~Craftable(occ.node.item_id) \/ OnPath(occ))

\* C5 (amended): a node has no children exactly when its item has no recipe
\* (or is unknown), or its id is on the path from the root, or the first
\* variant of its item lists no ingredient.
C5_LeafIffRawOrCutOrEmptyVariant ==
    TreeAnswered
    => \A occ \in Occurrences(AnsweredTree, <<>>) :
          (occ.node.children = <<>>)
          <=> \/ ~Craftable(occ.node.item_id)
              \/ OnPath(occ)
              \/ FirstIngredients(occ.node.item_id) = <<>>

C5_Witness ==
    /\ TreeAnswered
    /\ Len(AnsweredTree.children) = 1
    /\ LET child == AnsweredTree.children[1] IN
       /\ child.item_id # AnsweredTree.item_id
       /\ Craftable(child.item_id)
       /\ FirstIngredients(child.item_id) = <<>>
       /\ child.children = <<>>

\* C6: at every depth a node has one child per ingredient of the first
\* variant of its item, and the child's quantity is that ingredient's
\* quantity times the node's quantity (cut leaves and leaves of unknown
\* ingredients included).
C6_QuantityPropagates ==
    TreeAnswered
    => \A occ \in Occurrences(AnsweredTree, <<>>) :
          occ.node.children # <<>>
          => /\ Len(occ.node.children) = Len(FirstIngredients(occ.node.item_id))
             /\ \A i \in 1..Len(occ.node.children) :
                   /\ occ.node.children[i].item_id
                        = FirstIngredients(occ.node.item_id)[i].item_id
                   /\ occ.node.children[i].quantity = ExpectedQuantity(occ.node, i)

C6_Witness ==
    /\ TreeAnswered
    /\ request.quantity = 2
    /\ \E occ \in Occurrences(AnsweredTree, <<>>) :
          /\ Len(occ.path) = 1
          /\ Len(occ.node.children) = 1
          /\ occ.node.quantity = 4
          /\ occ.node.children[1].quantity = 8
          /\ ~Known(occ.node.children[1].item_id)

\* C7: a dependencies request for a known item and a quantity >= 1 is
\* answered with one tree whose root is the requested item with the
\* requested quantity.
C7_RootIsRequest ==
    (DependenciesAnswered /\ Known(request.item_id))
    => /\ response.status = 200
       /\ AnsweredTree.item_id = request.item_id
       /\ AnsweredTree.quantity = request.quantity

C7_Witness ==
    /\ TreeAnswered
    /\ request.quantity = 2
    /\ AnsweredTree.quantity = 2
    /\ AnsweredTree.children # <<>>

\* the item ids on the path from the root to an occurrence
PathIds(occ) == {occ.path[i] : i \in 1..Len(occ.path)}

\* no id of the path can be met again below an occurrence
ClearOfPath(occ) == RecipeClosure({occ.node.item_id}) \cap PathIds(occ) = {}

C13_UnknownIngredientBecomesLeaf ==
    (DependenciesAnswered /\ Known(request.item_id))
    => /\ response.status = 200
       /\ \A occ \in Occurrences(AnsweredTree, <<>>) :
             (Craftable(occ.node.item_id) /\ ~OnPath(occ))
             => LET ings == FirstIngredients(occ.node.item_id) IN
                /\ Len(occ.node.children) = Len(ings)
                /\ \A i \in 1..Len(ings) :
                      occ.node.children[i] =
                         IF Known(ings[i].item_id)
                         THEN build_dependency_tree(
                                  items, ings[i].item_id,
                                  ings[i].quantity * occ.node.quantity,
                                  PathIds(occ) \cup {occ.node.item_id},
                                  Len(occ.path) + 2)
                         ELSE DependencyNode(
                                  ings[i].item_id, StoredNameOf(ings[i].item_id),
                                  ings[i].quantity * occ.node.quantity,
                                  FALSE, <<>>)

\* an unknown ingredient in front of a craftable one that is expanded
C13_Witness ==
    /\ TreeAnswered
    /\ request.quantity = 2
    /\ Len(AnsweredTree.children) = 2
    /\ LET leaf == AnsweredTree.children[1]
           other == AnsweredTree.children[2]
       IN /\ ~Known(leaf.item_id)
          /\ leaf.quantity = 4
          /\ leaf.item_name = StoredNameOf(leaf.item_id)
          /\ ~leaf.craftable
          /\ Craftable(other.item_id)
          /\ other.children # <<>>

----------------------------------------------------------------------------
(* Claims about the resource aggregator *)

\* the list a resources request was answered with
AnsweredResources == response.body

ListAnswered == ResourcesAnswered /\ response.status = 200 /\ Known(request.item_id)

\* the tree of the request a resources request aggregates
RequestedTree ==
    build_dependency_tree(items, request.item_id, request.quantity, {}, 1)

\* the nodes without children of a tree, in the order of a depth-first walk
RECURSIVE Leaves(_)
RECURSIVE LeavesFrom(_, _)
LeavesFrom(children, i) ==
    IF i > Len(children) THEN <<>>
    ELSE Leaves(children[i]) \o LeavesFrom(children, i + 1)

Leaves(node) ==
    IF node.children = <<>> THEN <<node>> ELSE LeavesFrom(node.children, 1)

\* the sum of the quantities of the leaves of item id among leaves[1..n]
RECURSIVE LeafSum(_, _, _)
LeafSum(leaves, id, n) ==
    IF n = 0 THEN 0
    ELSE LeafSum(leaves, id, n - 1)
         + (IF leaves[n].item_id = id THEN leaves[n].quantity ELSE 0)

\* the total a resource list gives for an item id (0 when it has no entry)
TotalOf(resources, id) ==
    IF \E i \in 1..Len(resources) : resources[i].item_id = id
    THEN LET i == CHOOSE i \in 1..Len(resources) : resources[i].item_id = id
         IN resources[i].total_quantity
    ELSE 0

EntryIds(resources) == {resources[i].item_id : i \in 1..Len(resources)}

\* section 8's worked example: iron_sword <- 3 iron_ingot + 1 wood_handle,
\* iron_ingot <- 2 iron_ore
WorkedExample ==
    [id \in {"iron_sword", "iron_ingot", "iron_ore", "wood_handle"} |->
        [ItemRow(id) EXCEPT !.variants =
            IF id = "iron_sword"
            THEN <<CraftingVariant(<<CraftingIngredient("iron_ingot", 3),
                                     CraftingIngredient("wood_handle", 1)>>)>>
            ELSE IF id = "iron_ingot"
            THEN <<CraftingVariant(<<CraftingIngredient("iron_ore", 2)>>)>>
            ELSE <<>>]]

\* C12: a dependencies request and a resources request are answered 404
\* exactly when the requested item is unknown to the catalog; for a known
\* item both are answered 200, whatever unknown items its recipes name.
C12_NotFoundIffRootUnknown ==
    (DependenciesAnswered \/ ResourcesAnswered)
    => /\ response.status = 404 <=> ~Known(request.item_id)
       /\ response.status = 200 <=> Known(request.item_id)

\* a known item without recipe below a root whose recipe names an unknown
\* item first
C12_Witness ==
    /\ ResourcesAnswered
    /\ response.status = 200
    /\ Len(RequestedTree.children) = 2
    /\ ~Known(RequestedTree.children[1].item_id)
    /\ ~Craftable(RequestedTree.children[2].item_id)
    /\ Len(response.body) = 2

\* the catalog without the variants behind the first one of each item
FirstVariantsOnly ==
    [id \in DOMAIN items |->
        [items[id] EXCEPT !.variants =
            IF Len(@) > 0 THEN <<@[1]>> ELSE <<>>]]

\* C14: the children of the node of a craftable item that is not cut are, in
\* number, order and item id, the ingredients of the first variant of the
\* item; the variants behind the first one change neither the tree nor the
\* resource totals.
C14_FirstVariantOnly ==
    /\ TreeAnswered
       => /\ \A occ \in Occurrences(AnsweredTree, <<>>) :
                (Craftable(occ.node.item_id) /\ ~OnPath(occ))
                => LET ings == items[occ.node.item_id].variants[1].ingredients IN
                   /\ Len(occ.node.children) = Len(ings)
                   /\ \A i \in 1..Len(ings) :
                         occ.node.children[i].item_id = ings[i].item_id
          /\ AnsweredTree = build_dependency_tree(
                                FirstVariantsOnly, request.item_id,
                                request.quantity, {}, 1)
    /\ ListAnswered
       => AnsweredResources = calculate_total_resources(
                                  FirstVariantsOnly, request.item_id,
                                  request.quantity).list

\* an item with a second variant that names another ingredient
C14_Witness ==
    /\ TreeAnswered
    /\ Len(items[request.item_id].variants) = 2
    /\ Len(AnsweredTree.children) = 1
    /\ Len(items[request.item_id].variants[2].ingredients) = 1
    /\ items[request.item_id].variants[2].ingredients[1].item_id
          # AnsweredTree.children[1].item_id

\* C8: the resource list holds, for every item id, the sum of the quantities
\* of the childless nodes of that id in the request's tree (an id without
\* such a node has no entry, a node with children adds nothing of its own);
\* on the worked example with quantity 2 it is iron_ore 12, wood_handle 2.
C8_TotalsAreLeafSums ==
    /\ ListAnswered
       => LET leaves == Leaves(RequestedTree) IN
          /\ EntryIds(AnsweredResources)
                = {leaves[i].item_id : i \in 1..Len(leaves)}
          /\ \A id \in AllIds :
                TotalOf(AnsweredResources, id) = LeafSum(leaves, id, Len(leaves))
    /\ calculate_total_resources(WorkedExample, "iron_sword", 2)
         = List(<<ResourceCalculation("iron_ore", NameOf("iron_ore"), 12),
                  ResourceCalculation("wood_handle", NameOf("wood_handle"), 2)>>)

\* the same leaf item from two branches, below a node that has children
C8_Witness ==
    /\ ListAnswered
    /\ request.quantity = 2
    /\ RequestedTree.children # <<>>
    /\ \E id \in AllIds :
          /\ id # request.item_id
          /\ TotalOf(AnsweredResources, id) = 6
          /\ Cardinality({i \in 1..Len(Leaves(RequestedTree)) :
                             Leaves(RequestedTree)[i].item_id = id}) = 2

\* C9: on an acyclic catalog the resource list for quantity Q has the item
\* ids of the list for quantity 1, and each total is Q times that of
\* quantity 1.
C9_TotalsAreLinear ==
    (ListAnswered /\ AcyclicCatalog)
    => LET unit == calculate_total_resources(items, request.item_id, 1).list IN
       /\ EntryIds(AnsweredResources) = EntryIds(unit)
       /\ Len(AnsweredResources) = Len(unit)
       /\ \A id \in AllIds :
             TotalOf(AnsweredResources, id) = request.quantity * TotalOf(unit, id)

C9_Witness ==
    /\ ListAnswered
    /\ AcyclicCatalog
    /\ request.quantity = 2
    /\ Len(AnsweredResources) = 2
    /\ AnsweredResources[1].total_quantity = 8
    /\ AnsweredResources[2].total_quantity = 2

\* the position of the first leaf of item id in a depth-first walk
FirstSeen(leaves, id) ==
    CHOOSE i \in 1..Len(leaves) :
        /\ leaves[i].item_id = id
        /\ \A j \in 1..(i - 1) : leaves[j].item_id # id

\* C10: the resource list names each item id once, its totals never
\* increase along the list, and entries with equal totals stand in the order
\* in which the depth-first walk of the tree first met their item ids.
C10_SortedDescendingStable ==
    ListAnswered
    => LET leaves == Leaves(RequestedTree)
           res == AnsweredResources
       IN \A i, j \in 1..Len(res) :
             i < j
             => /\ res[i].item_id # res[j].item_id
                /\ res[i].total_quantity >= res[j].total_quantity
                /\ res[i].total_quantity = res[j].total_quantity
                   => FirstSeen(leaves, res[i].item_id)
                        < FirstSeen(leaves, res[j].item_id)

\* a tie behind a larger total that the walk met last
C10_Witness ==
    /\ ListAnswered
    /\ Len(AnsweredResources) = 3
    /\ AnsweredResources[1].total_quantity > AnsweredResources[2].total_quantity
    /\ AnsweredResources[2].total_quantity = AnsweredResources[3].total_quantity
    /\ Leaves(RequestedTree)[3].item_id = AnsweredResources[1].item_id

----------------------------------------------------------------------------
(* Reading the upgrade graph *)

UpgradeOutputs(ids) ==
    {upgrades[i].output_item_row_id :
        i \in {k \in 1..Len(upgrades) : upgrades[k].source_item_row_id \in ids}}

UpgradeSources(ids) ==
    {upgrades[i].source_item_row_id :
        i \in {k \in 1..Len(upgrades) : upgrades[k].output_item_row_id \in ids}}

\* the ids reachable from ids along upgrade edges
RECURSIVE UpgradeClosure(_)
UpgradeClosure(ids) ==
    LET more == ids \cup UpgradeOutputs(ids) IN
    IF more = ids THEN ids ELSE UpgradeClosure(more)

\* the upgrade edges form no cycle (a self-loop is one)
AcyclicUpgrades ==
    \A id \in RowIds : id \notin UpgradeClosure(UpgradeOutputs({id}))

\* no item is the output of edges from two different sources
SingleSource == \A id \in RowIds : Cardinality(UpgradeSources({id})) <= 1

\* the connected component of an id, edges taken in both directions
RECURSIVE Component(_)
Component(ids) ==
    LET more == ids \cup UpgradeOutputs(ids) \cup UpgradeSources(ids) IN
    IF more = ids THEN ids ELSE Component(more)

ItemAnswered == request # None /\ request.op = "item" /\ Known(request.row_id)

UpgradeTreeAnswered == ItemAnswered /\ response.status = 200

AnsweredUpgradeTree == response.body.upgrade_tree

----------------------------------------------------------------------------
(* Reading the recipes of an item response *)

RecipesAnswered ==
    /\ ItemAnswered
    /\ response.status = 200
    /\ Len(recipes) = 1
    /\ recipes[1].output_item_row_id = request.row_id

AnsweredRecipes == response.body.recipes

\* the ingredients of the recipe of the requested item, by position
OriginalIngredients == sorted_by_position(recipes[1].ingredients)

\* the ingredient is flagged as a substitution group and the group exists
Resolves(ing) ==
    ing.is_substitute_group /\ ing.item_row_id \in DOMAIN substitutes

\* the ingredient is flagged as a substitution group and no group has its id
Dangling(ing) ==
    ing.is_substitute_group /\ ing.item_row_id \notin DOMAIN substitutes

\* the product of the numbers of member rows of the groups that the first n
\* ingredients resolve to
RECURSIVE GroupSizeProduct(_, _)
GroupSizeProduct(ingredients, n) ==
    IF n = 0 THEN 1
    ELSE GroupSizeProduct(ingredients, n - 1)
         * (IF Resolves(ingredients[n])
            THEN Len(substitutes[ingredients[n].item_row_id])
            ELSE 1)

GroupMembers(ing) ==
    {substitutes[ing.item_row_id][k] :
        k \in 1..Len(substitutes[ing.item_row_id])}

\* the ways to pick one member per resolved group position, the other
\* ingredients keeping their own row id
Combinations(ingredients) ==
    {c \in [1..Len(ingredients) -> MemberRowIds \cup IngredientRowIds] :
        \A i \in 1..Len(ingredients) :
            IF Resolves(ingredients[i])
            THEN c[i] \in GroupMembers(ingredients[i])
            ELSE c[i] = ingredients[i].item_row_id}

\* the item row ids of the ingredients of an answered recipe
RowIdsOf(recipe) ==
    [i \in 1..Len(recipe.ingredients) |-> recipe.ingredients[i].item_row_id]

----------------------------------------------------------------------------
(* Claims about the recipe variant expansion *)

\* C15: a recipe whose substitution-group ingredients resolve to groups of
\* sizes n1..nk is answered with n1 x ... x nk recipes, no two of them equal,
\* one for each way to pick one member per group position; each keeps the
\* quantity and the position of every ingredient of the original recipe and
\* has the substitution flag cleared.
C15_ProductOfDistinctVariants ==
    (RecipesAnswered /\ \E i \in 1..Len(OriginalIngredients) :
                            Resolves(OriginalIngredients[i]))
    => LET ings == OriginalIngredients IN
       /\ Len(AnsweredRecipes) = GroupSizeProduct(ings, Len(ings))
       /\ \A i, j \in 1..Len(AnsweredRecipes) :
             i # j => AnsweredRecipes[i] # AnsweredRecipes[j]
       /\ {RowIdsOf(AnsweredRecipes[i]) : i \in 1..Len(AnsweredRecipes)}
             = Combinations(ings)
       /\ \A i \in 1..Len(AnsweredRecipes) :
             /\ Len(AnsweredRecipes[i].ingredients) = Len(ings)
             /\ \A k \in 1..Len(ings) :
                   /\ AnsweredRecipes[i].ingredients[k].quantity = ings[k].quantity
                   /\ AnsweredRecipes[i].ingredients[k].position = ings[k].position
                   /\ AnsweredRecipes[i].ingredients[k].is_substitute_group = FALSE

\* C16: an ingredient flagged as a substitution group whose group does not
\* exist does not fail the request: every answered recipe keeps it with its
\* own row id, quantity and position, and the number of answered recipes is
\* the product of the sizes of the groups that do exist.
C16_DanglingGroupKeptLiterally ==
    (ItemAnswered /\ Len(recipes) = 1
        /\ recipes[1].output_item_row_id = request.row_id
        /\ \E k \in 1..Len(OriginalIngredients) : Dangling(OriginalIngredients[k]))
    => LET ings == OriginalIngredients IN
       /\ response.status = 200
       /\ Len(AnsweredRecipes) = GroupSizeProduct(ings, Len(ings))
       /\ \A i \in 1..Len(AnsweredRecipes) :
             /\ Len(AnsweredRecipes[i].ingredients) = Len(ings)
             /\ \A k \in 1..Len(ings) :
                   Dangling(ings[k])
                   => /\ AnsweredRecipes[i].ingredients[k].item_row_id
                           = ings[k].item_row_id
                      /\ AnsweredRecipes[i].ingredients[k].quantity
                           = ings[k].quantity
                      /\ AnsweredRecipes[i].ingredients[k].position
                           = ings[k].position

\* all groups dangling: one recipe; a dangling group beside a group of two
\* members: two recipes
C16_Witness ==
    /\ RecipesAnswered
    /\ Len(OriginalIngredients) = 2
    /\ Dangling(OriginalIngredients[1])
    /\ Resolves(OriginalIngredients[2])
    /\ Len(AnsweredRecipes) = 2
    /\ AnsweredRecipes[1].ingredients[2].item_row_id
          # AnsweredRecipes[2].ingredients[2].item_row_id

----------------------------------------------------------------------------
(* Claims about the upgrade tree resolver *)

\* the ids that are the source or the output of an upgrade edge
EdgeIds == UpgradeSources(RowIds) \cup UpgradeOutputs(RowIds)

\* C17: for an acyclic upgrade edge set, the upgrade tree of a known item is
\* None exactly when the item is neither the source nor the output of any
\* upgrade edge, and a tree otherwise.
C17_NoneIffInNoEdge ==
    (ItemAnswered /\ AcyclicUpgrades)
    => /\ response.status = 200
       /\ AnsweredUpgradeTree = None <=> request.row_id \notin EdgeIds

\* an item without edge beside the edges of other items
C17_Witness ==
    /\ UpgradeTreeAnswered
    /\ AcyclicUpgrades
    /\ Len(upgrades) = 2
    /\ request.row_id \notin EdgeIds
    /\ AnsweredUpgradeTree = None

\* the nodes of an upgrade tree, parents before children
RECURSIVE UpgradeNodes(_)
RECURSIVE UpgradeNodesFrom(_, _)
UpgradeNodesFrom(children, i) ==
    IF i > Len(children) THEN <<>>
    ELSE UpgradeNodes(children[i]) \o UpgradeNodesFrom(children, i + 1)

UpgradeNodes(node) == <<node>> \o UpgradeNodesFrom(node.children, 1)

\* the outputs of the edges leaving an id, in the order of the edge list
OutputsInOrder(id) ==
    LET leaves(u) == u.source_item_row_id = id
        rows == SelectSeq(upgrades, leaves)
    IN [i \in 1..Len(rows) |-> rows[i].output_item_row_id]

\* C18: for an acyclic upgrade edge set, the ids of the nodes of the answered
\* upgrade tree are the ids reachable from its root along upgrade edges (the
\* set the breadth-first pass collects), the children of each node are the
\* outputs of the edges leaving it in the order of the edge list, and each
\* node carries the name and icon of its item (None without an Item row).
C18_TreeIsReachableSet ==
    (UpgradeTreeAnswered /\ AcyclicUpgrades /\ AnsweredUpgradeTree # None)
    => LET tree == AnsweredUpgradeTree
           nodes == UpgradeNodes(tree)
           ids == {nodes[k].row_id : k \in 1..Len(nodes)}
       IN /\ ids = UpgradeClosure({tree.row_id})
          /\ ids = collect_tree_item_ids(children_map(upgrades),
                                         <<tree.row_id>>, {})
          /\ \A k \in 1..Len(nodes) :
                LET n == nodes[k] IN
                /\ [i \in 1..Len(n.children) |-> n.children[i].row_id]
                      = OutputsInOrder(n.row_id)
                /\ IF Known(n.row_id)
                   THEN n.name = NameOf(n.row_id) /\ n.icon_path = IconOf(n.row_id)
                   ELSE n.name = None /\ n.icon_path = None

\* a root with two children in edge order, the second with a child of its own
C18_Witness ==
    /\ UpgradeTreeAnswered
    /\ AcyclicUpgrades
    /\ AnsweredUpgradeTree # None
    /\ Len(AnsweredUpgradeTree.children) = 2
    /\ AnsweredUpgradeTree.children[1].row_id = upgrades[1].output_item_row_id
    /\ AnsweredUpgradeTree.children[2].row_id = upgrades[2].output_item_row_id
    /\ AnsweredUpgradeTree.children[1].row_id # AnsweredUpgradeTree.children[2].row_id
    /\ ~Known(AnsweredUpgradeTree.children[2].row_id)
    /\ Len(AnsweredUpgradeTree.children[1].children) = 1

\* the source of the last edge into an output
LastSource(output) ==
    LET last == CHOOSE i \in 1..Len(upgrades) :
                    /\ upgrades[i].output_item_row_id = output
                    /\ \A j \in 1..Len(upgrades) :
                           upgrades[j].output_item_row_id = output => j <= i
    IN upgrades[last].source_item_row_id

\* the ids root finding passes, from the item it starts at up to the root
RECURSIVE ClimbPath(_, _)
ClimbPath(current, visited) ==
    IF current \in UpgradeOutputs(RowIds)
          /\ parents_map(upgrades)[current] \notin visited
    THEN <<current>> \o ClimbPath(parents_map(upgrades)[current],
                                  visited \cup {parents_map(upgrades)[current]})
    ELSE <<current>>

C1_UpgradeTreeTerminates ==
    ItemAnswered => response.status = 200

\* C2 as stated: whatever the upgrade edges, every item of the connected
\* component of the requested item has the root of the requested item, and
\* its upgrade tree, when one is built, is the tree the request was
\* answered with.
C2_SameComponentSameTree ==
    UpgradeTreeAnswered
    => \A y \in Component({request.row_id}) :
          /\ upgrade_root(upgrades, y) = upgrade_root(upgrades, request.row_id)
          /\ LET tree == get_full_upgrade_tree(items, upgrades, y) IN
             tree # RecursionError => tree = AnsweredUpgradeTree

\* C2 (amended): when the upgrade edges form no cycle and no item is the
\* output of edges from two different sources, every item of the connected
\* component of the requested item has the same root and the same upgrade
\* tree as the requested item.
C2_ForestComponentSameTree ==
    (ItemAnswered /\ AcyclicUpgrades /\ SingleSource)
    => /\ response.status = 200
       /\ \A y \in Component({request.row_id}) :
             /\ upgrade_root(upgrades, y) = upgrade_root(upgrades, request.row_id)
             /\ get_full_upgrade_tree(items, upgrades, y) = AnsweredUpgradeTree

\* the chain A -> B -> C asked from its end
C2_Witness ==
    /\ UpgradeTreeAnswered
    /\ AcyclicUpgrades /\ SingleSource
    /\ Component({request.row_id}) = RowIds
    /\ UpgradeOutputs({request.row_id}) = {}
    /\ AnsweredUpgradeTree # None
    /\ AnsweredUpgradeTree.row_id # request.row_id
    /\ Len(AnsweredUpgradeTree.children) = 1
    /\ Len(AnsweredUpgradeTree.children[1].children) = 1
    /\ AnsweredUpgradeTree.children[1].children[1].row_id = request.row_id

----------------------------------------------------------------------------
(* Reading the cooking relation *)

\* the cooked_item_row_id of an item (Null without Consumable row)
CookedTo(id) ==
    IF id \in DOMAIN consumables THEN consumables[id].cooked_item_row_id
    ELSE Null

\* the items that cook into an id
CookedFrom(id) == {p \in DOMAIN consumables : CookedTo(p) = id}

\* the ids reached from a set of ids by cooking
RECURSIVE CookingClosure(_)
CookingClosure(ids) ==
    LET more == ids \cup ({CookedTo(id) : id \in ids} \ {Null}) IN
    IF more = ids THEN ids ELSE CookingClosure(more)

AcyclicCooking ==
    \A id \in RowIds : id \notin CookingClosure({CookedTo(id)} \ {Null})

SingleCookedFrom == \A id \in RowIds : Cardinality(CookedFrom(id)) <= 1

\* the item stands on a chain of at least two items: an item cooks into it,
\* or it cooks into an item
OnCookingChain(id) == CookedFrom(id) # {} \/ Known(CookedTo(id))

AnsweredCookingChain ==
    [i \in 1..Len(response.body.cooking_chain) |->
        response.body.cooking_chain[i].row_id]

\* the chain holds the requested item, starts at an item nothing cooks into
\* and goes from each item to the item it cooks into
WholeChainInOrder(chain) ==
    /\ Len(chain) >= 2
    /\ \E i \in 1..Len(chain) : chain[i] = request.row_id
    /\ CookedFrom(chain[1]) = {}
    /\ \A i \in 1..(Len(chain) - 1) : chain[i + 1] = CookedTo(chain[i])

----------------------------------------------------------------------------
(* Claims about the cooking chain resolver *)

\* C20 as stated: for an acyclic cooking relation in which at most one item
\* cooks into each item, the cooking chain of an item on a chain of at least
\* two items is the whole chain from raw to cooked, and its last element has
\* no cooked_item_row_id.
C20_WholeChainEndsWithoutCookedTo ==
    (UpgradeTreeAnswered /\ AcyclicCooking /\ SingleCookedFrom
        /\ OnCookingChain(request.row_id))
    => LET chain == AnsweredCookingChain IN
       /\ WholeChainInOrder(chain)
       /\ CookedTo(chain[Len(chain)]) = Null

\* C20 (amended): for an acyclic cooking relation in which at most one item
\* cooks into each item, the cooking chain of an item on a chain of at least
\* two items is the whole chain from raw to cooked: its first element has no
\* item cooking into it, each next element is the cooked_item_row_id of the
\* previous one, and its last element has no cooked_item_row_id or one that
\* names no item.
C20_WholeChainInOrder ==
    (ItemAnswered /\ AcyclicCooking /\ SingleCookedFrom
        /\ OnCookingChain(request.row_id))
    => /\ response.status = 200
       /\ LET chain == AnsweredCookingChain IN
          /\ WholeChainInOrder(chain)
          /\ ~Known(CookedTo(chain[Len(chain)]))

\* a chain of three items asked from its last item
C20_Witness ==
    /\ UpgradeTreeAnswered
    /\ AcyclicCooking /\ SingleCookedFrom
    /\ Len(AnsweredCookingChain) = 3
    /\ AnsweredCookingChain[3] = request.row_id
    /\ CookedTo(request.row_id) = Null

\* C21: a cooking chain never has exactly one element: the chain of an item
\* that cooks into nothing and that nothing cooks into is empty, and a chain
\* that is not empty has at least two elements.
C21_NeverSingleElement ==
    UpgradeTreeAnswered
    => /\ Len(AnsweredCookingChain) # 1
       /\ AnsweredCookingChain # <<>> => Len(AnsweredCookingChain) >= 2
       /\ (CookedTo(request.row_id) = Null /\ CookedFrom(request.row_id) = {})
          => AnsweredCookingChain = <<>>

\* an item with a Consumable row that stands alone, beside a chain of others
C21_Witness ==
    /\ UpgradeTreeAnswered
    /\ request.row_id \in DOMAIN consumables
    /\ CookedTo(request.row_id) = Null
    /\ CookedFrom(request.row_id) = {}
    /\ \E id \in DOMAIN consumables : Known(CookedTo(id))
    /\ AnsweredCookingChain = <<>>

\* no row id stands twice in a chain
NoRepeat(chain) ==
    \A i, j \in 1..Len(chain) : i # j => chain[i] # chain[j]

\* C22: whatever the cooking relation, cycles included (A cooks to B and B to
\* A, or A to A), the cooking chain of a known item is computed to the end
\* and the request is answered; the answered chain holds no item twice.
C22_CookingChainTerminates ==
    ItemAnswered
    => /\ response.status = 200
       /\ NoRepeat(AnsweredCookingChain)

\* two items cooking into each other
C22_Witness ==
    /\ UpgradeTreeAnswered
    /\ CookedTo(request.row_id) # Null
    /\ CookedTo(request.row_id) # request.row_id
    /\ Known(CookedTo(request.row_id))
    /\ CookedTo(CookedTo(request.row_id)) = request.row_id
    /\ Len(AnsweredCookingChain) = 2

----------------------------------------------------------------------------
(* All resolution operations against one catalog *)

\* a catalog of any of the four kinds, with every operation open to it
InitCatalog == Init \/ InitUpgrade \/ InitRecipes \/ InitCooking

NextCatalog == Dependencies \/ Resources \/ GetItem \/ SendResponse

SpecCatalog == InitCatalog /\ [][NextCatalog]_vars

\* a call is being answered, or returns
Called == request = None /\ request' # None

Returned == request # None /\ request' = None

----------------------------------------------------------------------------
(* Claims about what the totals name *)

\* C24: every entry of the totals is marked is_base_resource and names a
\* base resource, an item that no recipe produces; no craftable item stands
\* in the totals, also not one cut because of a cycle or one whose first
\* variant has no ingredients.
C24_OnlyBaseResources ==
    ListAnswered
    => \A i \in 1..Len(AnsweredResources) :
           /\ AnsweredResources[i].is_base_resource
           /\ ~Craftable(AnsweredResources[i].item_id)

----------------------------------------------------------------------------
(* Claims about the shape of the dependency tree *)

\* how often an id stands on the path from the root to an occurrence
TimesOnPath(occ) ==
    Cardinality({i \in 1..Len(occ.path) : occ.path[i] = occ.node.item_id})

\* the number of nodes from the root down to the occurrence
DepthOf(occ) == Len(occ.path) + 1

\* C25: in every tree returned by build_dependency_tree an item id occurs at
\* most twice along a path from the root; a second occurrence is a node
\* without children; the tree is at most as deep as the number of distinct
\* item ids of the catalog plus one.
C25_AtMostTwiceOnPath ==
    TreeAnswered
    => \A occ \in Occurrences(AnsweredTree, <<>>) :
           /\ TimesOnPath(occ) <= 1
           /\ OnPath(occ) => occ.node.children = <<>>
           /\ DepthOf(occ) <= Cardinality(DOMAIN items) + 1

\* a second occurrence at the deepest place: every item of the catalog on
\* the path, then one of them again
C25_Witness ==
    /\ TreeAnswered
    /\ \E occ \in Occurrences(AnsweredTree, <<>>) :
           /\ OnPath(occ)
           /\ DepthOf(occ) = Cardinality(DOMAIN items) + 1

----------------------------------------------------------------------------
(* Claims about the upgrade tree of any acyclic edge set *)

UpgradeNodeIds(tree) ==
    {UpgradeNodes(tree)[i].row_id : i \in 1..Len(UpgradeNodes(tree))}

\* C26: for an acyclic upgrade edge set, also one with several edges into
\* the same output, a tree returned for X holds a node for X, and its root is
\* not the output of any upgrade edge.
C26_TreeHoldsItemRootIsSource ==
    (UpgradeTreeAnswered /\ AcyclicUpgrades /\ AnsweredUpgradeTree # None)
    => /\ request.row_id \in UpgradeNodeIds(AnsweredUpgradeTree)
       /\ UpgradeSources({AnsweredUpgradeTree.row_id}) = {}

\* two edges into the requested item
C26_Witness ==
    /\ UpgradeTreeAnswered
    /\ AcyclicUpgrades
    /\ AnsweredUpgradeTree # None
    /\ Cardinality(UpgradeSources({request.row_id})) = 2

----------------------------------------------------------------------------
(* Claims about the cooking chain of any cooking relation *)

ChainIds(chain) == {chain[i] : i \in 1..Len(chain)}

\* C27: whatever the cookedTo relation (cycles, several items cooking into
\* the same item), a non-empty cooking chain of X holds X, and each element
\* cooks into the element that follows it.
C27_ChainHoldsItemAndFollowsCookedTo ==
    (UpgradeTreeAnswered /\ AnsweredCookingChain # <<>>)
    => /\ request.row_id \in ChainIds(AnsweredCookingChain)
       /\ \A i \in 1..(Len(AnsweredCookingChain) - 1) :
              CookedTo(AnsweredCookingChain[i]) = AnsweredCookingChain[i + 1]

\* two other items cook into the requested item
C27_Witness ==
    /\ UpgradeTreeAnswered
    /\ Cardinality(CookedFrom(request.row_id) \ {request.row_id}) = 2
    /\ Len(AnsweredCookingChain) = 2

----------------------------------------------------------------------------
(* Claims about recipes that are always answered *)

\* C28: every recipe that produces the queried item contributes at least one
\* concrete recipe to the item response, also when one of its ingredients is
\* a substitution group that exists and lists no item.
C28_EveryRecipeAnswered ==
    RecipesAnswered => Len(AnsweredRecipes) >= 1

----------------------------------------------------------------------------
(* The crafting orders: order requests of any user, one at a time *)

OrderIds == 1..MaxOrders

OrderCreates ==
    {OrderCreate(<<OrderItemCreate("a", 1)>>, notes) : notes \in {None, Note}}

MissingResourceLists ==
    {None, List(<<>>), List(<<MissingResource("a", 1)>>)}

OrderUpdates ==
    {OrderUpdate(status, notes, missing_resources) :
        status \in OrderStatus \cup {Null}, notes \in {None, Note},
        missing_resources \in MissingResourceLists}

InitOrders ==
    /\ items = <<>>
    /\ upgrades = <<>>
    /\ recipes = <<>>
    /\ substitutes = <<>>
    /\ consumables = <<>>
    /\ orders = <<>>
    /\ request = None
    /\ response = None

CreateOrder ==
    \E user \in Users, order_data \in OrderCreates :
        create_new_order(user, order_data)

GetOrder == \E order_id \in OrderIds : get_order_by_id(order_id)

UpdateOrder ==
    \E order_id \in OrderIds, user \in Users, update_data \in OrderUpdates :
        update_order_by_id(order_id, user, update_data)

AcceptOrder == \E order_id \in OrderIds, user \in Users : accept_order(order_id, user)

CompleteOrder ==
    \E order_id \in OrderIds, user \in Users : complete_order(order_id, user)

CancelOrder ==
    \E order_id \in OrderIds, user \in Users : cancel_order_by_id(order_id, user)

NextOrders ==
    \/ CreateOrder
    \/ GetOrder
    \/ UpdateOrder
    \/ AcceptOrder
    \/ CompleteOrder
    \/ CancelOrder
    \/ SendResponse

SpecOrders == InitOrders /\ [][NextOrders]_vars

----------------------------------------------------------------------------
(* Claims about the orders *)

\* the step answers a request of the given kind on an existing order
OrderCalled(op) ==
    /\ request = None
    /\ request' # None
    /\ request'.op = op
    /\ request'.order_id \in DOMAIN orders

\* C29: only the requester can cancel an order.  Over any sequence of order
\* operations of any users, the status of an order becomes CANCELLED only in
\* an operation issued by the order's requester; a cancel call of any other
\* user is answered 403 and leaves the order as it was.
C29_OnlyRequesterCancels ==
    [][/\ \A id \in DOMAIN orders :
              (orders[id].status # CANCELLED /\ orders'[id].status = CANCELLED)
              => request'.user_id = orders[id].requester_id
       /\ (OrderCalled("cancel")
           /\ request'.user_id # orders[request'.order_id].requester_id)
          => (response'.status = 403 /\ orders' = orders)]_vars

\* C30: accept_order succeeds only on a PENDING order: it sets the status to
\* ACCEPTED and makes the caller the crafter when the order has none; on any
\* other status it is answered 400 and the order keeps its status and its
\* crafter.  A crafter_id that is set is changed by no order operation.
C30_AcceptOnlyPendingCrafterKept ==
    [][/\ OrderCalled("accept")
          => LET order == orders[request'.order_id]
                 after == orders'[request'.order_id]
             IN IF order.status = PENDING
                THEN /\ response'.status = 200
                     /\ after.status = ACCEPTED
                     /\ after.crafter_id = IF order.crafter_id = Null
                                           THEN request'.user_id
                                           ELSE order.crafter_id
                ELSE /\ response'.status = 400
                     /\ after.status = order.status
                     /\ after.crafter_id = order.crafter_id
       /\ \A id \in DOMAIN orders :
              orders[id].crafter_id # Null
              => orders'[id].crafter_id = orders[id].crafter_id]_vars

\* a user accepts a pending order that already has another crafter
C30_Witness ==
    /\ request # None
    /\ request.op = "accept"
    /\ response.status = 200
    /\ orders[request.order_id].status = ACCEPTED
    /\ orders[request.order_id].crafter_id # request.user_id

====
